---- MODULE Spec2Model ----
(***************************************************************************)
(* goresult: the Result[T] and Option[T] containers (interface variant,    *)
(* hidden structs result[T] and option[T]) and the failure normalizer      *)
(* covertError, as a state machine over a heap of container objects.       *)
(*                                                                         *)
(* Every constructor and method returns a pointer (&result[T]{...},        *)
(* &option[T]{...}), so a container is an address into `heap`; an action   *)
(* is one call of one exported function by a caller, who may recover from  *)
(* a panic (as the tests do with assert.Panics) and go on calling.         *)
(***************************************************************************)
EXTENDS Integers, Sequences, FiniteSets, TLC

\* ------------------------------------------------------------------ bounds
\* number of containers the callers allocate
MaxObjs == 2
\* number of direct calls of covertError
MaxCalls == 4
\* number of containers in a chain of conversions
MaxChain == 3

\* ------------------------------------------------------------------ values
\* A Go value of the model: one record shape for all of them, so that any two
\* values compare.  cls is the dynamic type class of the value.
V(cls, n, s, addr) == [cls |-> cls, n |-> n, s |-> s, addr |-> addr]

\* the nil interface value (nil error, nil interface{}, nil any)
NilV == V("nil", 0, "", 0)
\* no value at all: what a call that panicked "returns", what a func(T) returns
Undef == V("undef", 0, "", 0)
IntV(n) == V("int", n, "", 0)
StrV(s) == V("string", 0, s, 0)
BoolV(b) == V("bool", IF b THEN 1 ELSE 0, "", 0)
\* an error value: a pointer (addr) to an object whose Error() returns text
ErrV(addr, text) == V("error", 0, text, addr)
\* a pointer to a container on the heap
PtrV(addr) == V("ptr", 0, "", addr)

\* the errors the callers hold before any call, e.g. errors.New("boom")
NativeErrors == {ErrV(1, "boom")}

\* the payload types T the containers are instantiated at: a concrete type and
\* an interface type
Types == {"int", "error"}

\* the zero value of T: result[T]{}.value, None[T]().Value()
Zero(T) == IF T = "int" THEN IntV(0) ELSE NilV

\* the values of type T the callers use: the zero value and another one (no
\* function of the library looks into a payload)
ValuesOf(T) == IF T = "int" THEN {IntV(0), IntV(1)}
               ELSE {NilV} \cup NativeErrors

\* what a caller may pass as err interface{}
Descriptors == {NilV, StrV("boom"), IntV(42)} \cup NativeErrors

\* the msg arguments of Except and ExceptError
Messages == {"msg", ""}

\* ------------------------------------------------------------- formatting
Digit(d) == CASE d = 0 -> "0" [] d = 1 -> "1" [] d = 2 -> "2" [] d = 3 -> "3"
              [] d = 4 -> "4" [] d = 5 -> "5" [] d = 6 -> "6" [] d = 7 -> "7"
              [] d = 8 -> "8" [] OTHER -> "9"

RECURSIVE Itoa(_)
Itoa(n) == IF n < 10 THEN Digit(n) ELSE Itoa(n \div 10) \o Digit(n % 10)

\* fmt's %v verb
FormatV(v) == CASE v.cls = "nil" -> "<nil>"
                [] v.cls = "string" -> v.s
                [] v.cls = "int" -> Itoa(v.n)
                [] v.cls = "bool" -> (IF v.n = 1 THEN "true" ELSE "false")
                [] OTHER -> v.s

\* fmt.Errorf("%s: %s", a, b)
FormatPair(a, b) == a \o ": " \o b

\* reflect.TypeOf(value): the dynamic type, nil for a nil interface value
TypeOf(v) == CASE v.cls = "nil" -> [isNil |-> TRUE, name |-> ""]
               [] v.cls = "int" -> [isNil |-> FALSE, name |-> "int"]
               [] v.cls = "string" -> [isNil |-> FALSE, name |-> "string"]
               [] v.cls = "error" -> [isNil |-> FALSE, name |-> "*errors.errorString"]
               [] OTHER -> [isNil |-> FALSE, name |-> v.cls]

\* ------------------------------------------------------- failure normalizer
\* the address of the error object a call allocates while the heap holds
\* `free - 1` containers: beyond every native error, one per heap slot
FreshErr(free) == Cardinality(NativeErrors) + free

\* covertError without the error case: everything is formatted into a new error
covertError_alwaysWraps(err, fresh) == ErrV(fresh, FormatV(err))

\* covertError with nil passed through: "no descriptor, no error"
covertError_nilIsNil(err, fresh) ==
    IF err.cls = "error" \/ err.cls = "nil" THEN err ELSE ErrV(fresh, FormatV(err))

\* covertError: an error is returned as it is, anything else is formatted
\* with %v into a new error object (at address fresh)
covertError(err, fresh) ==
    IF err.cls = "error" THEN err ELSE ErrV(fresh, FormatV(err))

\* ------------------------------------------------------------- outcomes
\* What one call does: the heap after it, the value returned (Undef when it
\* panicked), the panic (fault = "none" when it returned), and the callback
\* invocations it made, in order.
Return(h, v, calls) ==
    [heap |-> h, ret |-> v, fault |-> "none", msg |-> "", calls |-> calls]

Panic(h, kind, msg, calls) ==
    [heap |-> h, ret |-> Undef, fault |-> kind, msg |-> msg, calls |-> calls]

\* the Go runtime's panic on a call through a nil func or nil interface
NilDeref == "runtime error: invalid memory address or nil pointer dereference"

\* ------------------------------------------------------------- callbacks
\* A func value the caller passes: nil, a func that panics, a func that
\* returns ret whatever it is given (ret = Undef for a func(T) returning
\* nothing), or a predicate comparing its argument with ret.
NilFunc == [kind |-> "nil", ret |-> Undef]
PanicFunc == [kind |-> "panics", ret |-> Undef]
ConstFunc(v) == [kind |-> "const", ret |-> v]
EqFunc(v) == [kind |-> "eq", ret |-> v]

\* f(arg) inside a method: the outcome of the invocation
Invoke(h, f, arg) ==
    CASE f.kind = "nil" -> Panic(h, "runtime", NilDeref, <<>>)
      [] f.kind = "panics" -> Panic(h, "callback", "callback", <<[f |-> f, arg |-> arg]>>)
      [] f.kind = "eq" -> Return(h, BoolV(arg = f.ret), <<[f |-> f, arg |-> arg]>>)
      [] OTHER -> Return(h, f.ret, <<[f |-> f, arg |-> arg]>>)

\* --------------------------------------------------------------- option
\* Some: &option[T]{value: value, none: false}
Some(T, value) == [cls |-> "option", T |-> T, value |-> value, none |-> FALSE]

\* None: &option[T]{none: true}
None(T) == [cls |-> "option", T |-> T, value |-> Zero(T), none |-> TRUE]

option_Value(opt) == opt.value
option_IsSome(opt) == ~opt.none
\* IsNone that tells by the value field
option_IsNone_byValue(opt) == opt.value = Zero(opt.T)
option_IsNone(opt) == opt.none

\* --------------------------------------------------------------- result
\* Ok that leaves the value field unset
Ok_noValue(T, value) == [cls |-> "result", T |-> T, value |-> Zero(T), error |-> NilV]

\* Ok: &result[T]{value: value, error: nil}
Ok(T, value) == [cls |-> "result", T |-> T, value |-> value, error |-> NilV]

\* Error: &result[T]{error: covertError(err)}
Error(T, err, fresh) ==
    [cls |-> "result", T |-> T, value |-> Zero(T), error |-> covertError(err, fresh)]

result_Value(r) == r.value
result_Error(r) == r.error
result_IsOk(r) == r.error = NilV
\* IsError that tells by the value field
result_IsError_byValue(r) == r.value = Zero(r.T)
result_IsError(r) == r.error # NilV

\* unwrapErrorFailed: panic(fmt.Errorf("%s: %s", msg, err.Error()))
unwrapErrorFailed(h, msg, err) == Panic(h, "error", FormatPair(msg, err.s), <<>>)

\* unwrapValueFailed: reflect.TypeOf(value).String(), then the panic
unwrapValueFailed(h, msg, value) ==
    IF TypeOf(value).isNil
    THEN Panic(h, "runtime", NilDeref, <<>>)
    ELSE Panic(h, "error", FormatPair(msg, TypeOf(value).name), <<>>)

\* Except that returns the value field in the failure state too
result_Except_noPanic(h, self, msg) == Return(h, h[self].value, <<>>)

result_Except(h, self, msg) ==
    IF result_IsError(h[self])
    THEN unwrapErrorFailed(h, msg, h[self].error)
    ELSE Return(h, h[self].value, <<>>)

result_ExceptError(h, self, msg) ==
    IF result_IsOk(h[self])
    THEN unwrapValueFailed(h, msg, h[self].value)
    ELSE Return(h, h[self].error, <<>>)

\* the fixed messages of Unwrap and UnwrapError (the source's backquotes are
\* written as apostrophes)
UnwrapMsg == "called 'result.Unwrap()' on an 'error' value"
UnwrapErrorMsg == "called 'result.UnwrapError()' on an 'value' value"

result_Unwrap(h, self) == result_Except(h, self, UnwrapMsg)
result_UnwrapError(h, self) == result_ExceptError(h, self, UnwrapErrorMsg)

result_Inspect(h, self, f) ==
    IF result_IsOk(h[self])
    THEN LET c == Invoke(h, f, h[self].value)
         IN  IF c.fault # "none" THEN c ELSE Return(c.heap, PtrV(self), c.calls)
    ELSE Return(h, PtrV(self), <<>>)

\* InspectError with Inspect's condition
result_InspectError_onOk(h, self, f) ==
    IF result_IsOk(h[self])
    THEN LET c == Invoke(h, f, h[self].error)
         IN  IF c.fault # "none" THEN c ELSE Return(c.heap, PtrV(self), c.calls)
    ELSE Return(h, PtrV(self), <<>>)

result_InspectError(h, self, f) ==
    IF result_IsError(h[self])
    THEN LET c == Invoke(h, f, h[self].error)
         IN  IF c.fault # "none" THEN c ELSE Return(c.heap, PtrV(self), c.calls)
    ELSE Return(h, PtrV(self), <<>>)

result_UnwrapOr(h, self, defaults) ==
    IF result_IsOk(h[self]) THEN Return(h, h[self].value, <<>>)
    ELSE Return(h, defaults, <<>>)

result_UnwrapOrDefault(h, self) ==
    IF result_IsOk(h[self]) THEN Return(h, h[self].value, <<>>)
    ELSE Return(h, Zero(h[self].T), <<>>)

\* UnwrapOrElse that computes the fallback before it looks at the state
result_UnwrapOrElse_eager(h, self, f) ==
    LET c == Invoke(h, f, Undef)
    IN  IF c.fault # "none" THEN c
        ELSE IF result_IsOk(h[self]) THEN Return(c.heap, h[self].value, c.calls)
        ELSE c

result_UnwrapOrElse(h, self, f) ==
    IF result_IsOk(h[self]) THEN Return(h, h[self].value, <<>>)
    ELSE Invoke(h, f, Undef)

\* Option that wraps the value field whatever the state
result_Option_always(h, self) ==
    Return(Append(h, Some(h[self].T, h[self].value)), PtrV(Len(h) + 1), <<>>)

result_Option(h, self) ==
    IF result_IsOk(h[self])
    THEN Return(Append(h, Some(h[self].T, h[self].value)), PtrV(Len(h) + 1), <<>>)
    ELSE Return(Append(h, None(h[self].T)), PtrV(Len(h) + 1), <<>>)

\* ------------------------------------------------------ option, continued
\* the fixed message of option.Unwrap (backquotes written as apostrophes)
OptionUnwrapMsg == "called 'option.Unwrap()' on a 'nil' value"

option_Unwrap(h, self) ==
    IF option_IsNone(h[self]) THEN Panic(h, "string", OptionUnwrapMsg, <<>>)
    ELSE Return(h, h[self].value, <<>>)

\* UnwrapOr with the branches swapped
option_UnwrapOr_swapped(h, self, defaults) ==
    IF option_IsSome(h[self]) THEN Return(h, defaults, <<>>)
    ELSE Return(h, h[self].value, <<>>)

option_UnwrapOr(h, self, defaults) ==
    IF option_IsNone(h[self]) THEN Return(h, defaults, <<>>)
    ELSE Return(h, h[self].value, <<>>)

option_UnwrapOrElse(h, self, f) ==
    IF option_IsNone(h[self]) THEN Invoke(h, f, Undef)
    ELSE Return(h, h[self].value, <<>>)

\* UnwrapOrDefault that goes through Unwrap
option_UnwrapOrDefault_viaUnwrap(h, self) == option_Unwrap(h, self)

\* the None[T]() it reads the zero value from is garbage at once: not kept
option_UnwrapOrDefault(h, self) ==
    IF option_IsNone(h[self]) THEN Return(h, option_Value(None(h[self].T)), <<>>)
    ELSE Return(h, h[self].value, <<>>)

option_Inspect(h, self, f) ==
    IF option_IsSome(h[self])
    THEN LET c == Invoke(h, f, h[self].value)
         IN  IF c.fault # "none" THEN c ELSE Return(c.heap, PtrV(self), c.calls)
    ELSE Return(h, PtrV(self), <<>>)

\* OkOr that does not pass its argument on
option_OkOr_noDescriptor(h, self, err) ==
    IF option_IsSome(h[self])
    THEN Return(Append(h, Ok(h[self].T, h[self].value)), PtrV(Len(h) + 1), <<>>)
    ELSE Return(Append(h, Error(h[self].T, NilV, FreshErr(Len(h) + 1))),
                PtrV(Len(h) + 1), <<>>)

option_OkOr(h, self, err) ==
    IF option_IsSome(h[self])
    THEN Return(Append(h, Ok(h[self].T, h[self].value)), PtrV(Len(h) + 1), <<>>)
    ELSE Return(Append(h, Error(h[self].T, err, FreshErr(Len(h) + 1))),
                PtrV(Len(h) + 1), <<>>)

\* OkOrElse that computes the descriptor before it looks at the state
option_OkOrElse_eager(h, self, f) ==
    LET c == Invoke(h, f, Undef)
    IN  IF c.fault # "none" THEN c
        ELSE IF option_IsSome(h[self])
             THEN Return(Append(c.heap, Ok(h[self].T, h[self].value)),
                         PtrV(Len(c.heap) + 1), c.calls)
        ELSE Return(Append(c.heap, Error(h[self].T, c.ret, FreshErr(Len(c.heap) + 1))),
                    PtrV(Len(c.heap) + 1), c.calls)

\* f returns an error; Error[T](f()) takes it as interface{}
option_OkOrElse(h, self, f) ==
    IF option_IsSome(h[self])
    THEN Return(Append(h, Ok(h[self].T, h[self].value)), PtrV(Len(h) + 1), <<>>)
    ELSE LET c == Invoke(h, f, Undef)
         IN  IF c.fault # "none" THEN c
             ELSE Return(Append(c.heap, Error(h[self].T, c.ret, FreshErr(Len(c.heap) + 1))),
                         PtrV(Len(c.heap) + 1), c.calls)

\* Filter with the conjuncts swapped: predicate(opt.value) && opt.IsSome()
option_Filter_eager(h, self, predicate) ==
    LET c == Invoke(h, predicate, h[self].value)
    IN  IF c.fault # "none" THEN c
        ELSE IF c.ret = BoolV(TRUE) /\ option_IsSome(h[self])
             THEN Return(c.heap, PtrV(self), c.calls)
        ELSE Return(Append(c.heap, None(h[self].T)), PtrV(Len(c.heap) + 1), c.calls)

\* Filter that clears the receiver instead of allocating a None
option_Filter_inPlace(h, self, predicate) ==
    IF option_IsSome(h[self])
    THEN LET c == Invoke(h, predicate, h[self].value)
         IN  IF c.fault # "none" THEN c
             ELSE IF c.ret = BoolV(TRUE) THEN Return(c.heap, PtrV(self), c.calls)
             ELSE Return([c.heap EXCEPT ![self] = None(h[self].T)], PtrV(self), c.calls)
    ELSE Return(h, PtrV(self), <<>>)

\* opt.IsSome() && predicate(opt.value): the predicate runs only on Some
option_Filter(h, self, predicate) ==
    IF option_IsSome(h[self])
    THEN LET c == Invoke(h, predicate, h[self].value)
         IN  IF c.fault # "none" THEN c
             ELSE IF c.ret = BoolV(TRUE) THEN Return(c.heap, PtrV(self), c.calls)
             ELSE Return(Append(c.heap, None(h[self].T)), PtrV(Len(c.heap) + 1), c.calls)
    ELSE Return(Append(h, None(h[self].T)), PtrV(Len(h) + 1), <<>>)

\* ------------------------------------------------------------------ state
\* heap: the containers allocated so far, by address 1..Len(heap)
\* last: the call made last: which function, on which receiver, with which
\*       arguments, and its outcome
\* errs: the direct calls of covertError made so far, each with its argument
\*       and the error it returned
\* chain: the addresses of a container and of the containers converted from
\*       it, one after the other, by Option, OkOr and OkOrElse
\* heapS, lastS: heap and last of the struct variant (Result[T], Option[T] with
\*       exported fields) when the same calls are made on both variants
VARIABLES heap, last, errs, chain, heapS, lastS
vars == <<heap, last, errs, chain, heapS, lastS>>

NoFunc == [kind |-> "none", ret |-> Undef]

Call(op, self, msg, val, f, out) ==
    [op |-> op, self |-> self, msg |-> msg, val |-> val, f |-> f,
     ret |-> out.ret, fault |-> out.fault, fmsg |-> out.msg, calls |-> out.calls]

Init ==
    /\ heap = <<>>
    /\ last = Call("init", 0, "", Undef, NoFunc, Return(<<>>, Undef, <<>>))
    /\ errs = <<>>
    /\ chain = <<>>
    /\ heapS = <<>>
    /\ lastS = Call("init", 0, "", Undef, NoFunc, Return(<<>>, Undef, <<>>))

\* one call whose outcome is out: the caller's heap bound is the guard
Step(op, self, msg, val, f, out) ==
    /\ Len(out.heap) <= MaxObjs
    /\ heap' = out.heap
    /\ last' = Call(op, self, msg, val, f, out)
    /\ UNCHANGED <<errs, chain, heapS, lastS>>

Results == {a \in DOMAIN heap : heap[a].cls = "result"}
Options == {a \in DOMAIN heap : heap[a].cls = "option"}

\* the funcs a caller passes
ValueFuncs(T) == {NilFunc, PanicFunc} \cup {ConstFunc(v) : v \in ValuesOf(T)}
VoidFuncs == {NilFunc, PanicFunc, ConstFunc(Undef)}
ErrorFuncs == {NilFunc, PanicFunc} \cup {ConstFunc(e) : e \in {NilV} \cup NativeErrors}
Predicates(T) == {NilFunc, PanicFunc} \cup {EqFunc(v) : v \in ValuesOf(T)}

\* ---------------------------------------------------------- constructors
\* The callers of one behaviour instantiate the containers at one type T: no
\* function takes two containers, and every conversion keeps T.
Instantiated(T) == \A a \in DOMAIN heap : heap[a].T = T

CallOk ==
    \E T \in {t \in Types : Instantiated(t)} : \E v \in ValuesOf(T) :
        Step("Ok", 0, "", v, NoFunc,
             Return(Append(heap, Ok(T, v)), PtrV(Len(heap) + 1), <<>>))

CallError ==
    \E T \in {t \in Types : Instantiated(t)} : \E d \in Descriptors :
        Step("Error", 0, "", d, NoFunc,
             Return(Append(heap, Error(T, d, FreshErr(Len(heap) + 1))),
                    PtrV(Len(heap) + 1), <<>>))

CallSome ==
    \E T \in {t \in Types : Instantiated(t)} : \E v \in ValuesOf(T) :
        Step("Some", 0, "", v, NoFunc,
             Return(Append(heap, Some(T, v)), PtrV(Len(heap) + 1), <<>>))

CallNone ==
    \E T \in {t \in Types : Instantiated(t)} :
        Step("None", 0, "", Undef, NoFunc,
             Return(Append(heap, None(T)), PtrV(Len(heap) + 1), <<>>))

\* ------------------------------------------------------- Result methods
CallResultValue ==
    \E a \in Results :
        Step("result.Value", a, "", Undef, NoFunc, Return(heap, result_Value(heap[a]), <<>>))

CallResultError ==
    \E a \in Results :
        Step("result.Error", a, "", Undef, NoFunc, Return(heap, result_Error(heap[a]), <<>>))

CallResultIsOk ==
    \E a \in Results :
        Step("result.IsOk", a, "", Undef, NoFunc,
             Return(heap, BoolV(result_IsOk(heap[a])), <<>>))

CallResultIsError ==
    \E a \in Results :
        Step("result.IsError", a, "", Undef, NoFunc,
             Return(heap, BoolV(result_IsError(heap[a])), <<>>))

CallResultExcept ==
    \E a \in Results : \E msg \in Messages :
        Step("result.Except", a, msg, Undef, NoFunc, result_Except(heap, a, msg))

CallResultExceptError ==
    \E a \in Results : \E msg \in Messages :
        Step("result.ExceptError", a, msg, Undef, NoFunc, result_ExceptError(heap, a, msg))

CallResultUnwrap ==
    \E a \in Results :
        Step("result.Unwrap", a, "", Undef, NoFunc, result_Unwrap(heap, a))

CallResultUnwrapError ==
    \E a \in Results :
        Step("result.UnwrapError", a, "", Undef, NoFunc, result_UnwrapError(heap, a))

CallResultInspect ==
    \E a \in Results : \E f \in VoidFuncs :
        Step("result.Inspect", a, "", Undef, f, result_Inspect(heap, a, f))

CallResultInspectError ==
    \E a \in Results : \E f \in VoidFuncs :
        Step("result.InspectError", a, "", Undef, f, result_InspectError(heap, a, f))

CallResultUnwrapOr ==
    \E a \in Results : \E d \in ValuesOf(heap[a].T) :
        Step("result.UnwrapOr", a, "", d, NoFunc, result_UnwrapOr(heap, a, d))

CallResultUnwrapOrDefault ==
    \E a \in Results :
        Step("result.UnwrapOrDefault", a, "", Undef, NoFunc, result_UnwrapOrDefault(heap, a))

CallResultUnwrapOrElse ==
    \E a \in Results : \E f \in ValueFuncs(heap[a].T) :
        Step("result.UnwrapOrElse", a, "", Undef, f, result_UnwrapOrElse(heap, a, f))

CallResultOption ==
    \E a \in Results :
        Step("result.Option", a, "", Undef, NoFunc, result_Option(heap, a))

\* ------------------------------------------------------- Option methods
CallOptionValue ==
    \E a \in Options :
        Step("option.Value", a, "", Undef, NoFunc, Return(heap, option_Value(heap[a]), <<>>))

CallOptionIsSome ==
    \E a \in Options :
        Step("option.IsSome", a, "", Undef, NoFunc,
             Return(heap, BoolV(option_IsSome(heap[a])), <<>>))

CallOptionIsNone ==
    \E a \in Options :
        Step("option.IsNone", a, "", Undef, NoFunc,
             Return(heap, BoolV(option_IsNone(heap[a])), <<>>))

CallOptionUnwrap ==
    \E a \in Options :
        Step("option.Unwrap", a, "", Undef, NoFunc, option_Unwrap(heap, a))

CallOptionUnwrapOr ==
    \E a \in Options : \E d \in ValuesOf(heap[a].T) :
        Step("option.UnwrapOr", a, "", d, NoFunc, option_UnwrapOr(heap, a, d))

CallOptionUnwrapOrElse ==
    \E a \in Options : \E f \in ValueFuncs(heap[a].T) :
        Step("option.UnwrapOrElse", a, "", Undef, f, option_UnwrapOrElse(heap, a, f))

CallOptionUnwrapOrDefault ==
    \E a \in Options :
        Step("option.UnwrapOrDefault", a, "", Undef, NoFunc, option_UnwrapOrDefault(heap, a))

CallOptionInspect ==
    \E a \in Options : \E f \in VoidFuncs :
        Step("option.Inspect", a, "", Undef, f, option_Inspect(heap, a, f))

CallOptionOkOr ==
    \E a \in Options : \E d \in Descriptors :
        Step("option.OkOr", a, "", d, NoFunc, option_OkOr(heap, a, d))

CallOptionOkOrElse ==
    \E a \in Options : \E f \in ErrorFuncs :
        Step("option.OkOrElse", a, "", Undef, f, option_OkOrElse(heap, a, f))

CallOptionFilter ==
    \E a \in Options : \E p \in Predicates(heap[a].T) :
        Step("option.Filter", a, "", Undef, p, option_Filter(heap, a, p))

Next ==
    \/ CallOk \/ CallError \/ CallSome \/ CallNone
    \/ CallResultValue \/ CallResultError \/ CallResultIsOk \/ CallResultIsError
    \/ CallResultExcept \/ CallResultExceptError
    \/ CallResultUnwrap \/ CallResultUnwrapError
    \/ CallResultInspect \/ CallResultInspectError
    \/ CallResultUnwrapOr \/ CallResultUnwrapOrDefault \/ CallResultUnwrapOrElse
    \/ CallResultOption
    \/ CallOptionValue \/ CallOptionIsSome \/ CallOptionIsNone \/ CallOptionUnwrap
    \/ CallOptionUnwrapOr \/ CallOptionUnwrapOrElse \/ CallOptionUnwrapOrDefault
    \/ CallOptionInspect \/ CallOptionOkOr \/ CallOptionOkOrElse \/ CallOptionFilter

Spec == Init /\ [][Next]_vars

\* ------------------------------------------------------------ properties
\* the receiver of the last call, and the container it returned
Self == heap[last.self]
Returned == heap[last.ret.addr]

\* C1: for every descriptor d (an error, a string, any other value, nil) the
\* Result that Error[T](d) returns is in the failure state: IsError() is true,
\* IsOk() is false, Error() is non-nil and its description is the description
\* of the normalized d (the text of d when d is an error, its %v text otherwise).
C1_ErrorIsFailure ==
    last.op = "Error" =>
        /\ last.fault = "none"
        /\ result_IsError(Returned)
        /\ ~result_IsOk(Returned)
        /\ result_Error(Returned) # NilV
        /\ result_Error(Returned).cls = "error"
        /\ result_Error(Returned).s = covertError(last.val, 0).s
        /\ result_Error(Returned).s =
               (IF last.val.cls = "error" THEN last.val.s ELSE FormatV(last.val))

C1_Witness ==
    /\ last.op = "Error"
    /\ last.val = NilV
    /\ result_IsError(Returned)
    /\ result_Error(Returned).s = "<nil>"

\* C2: for every payload v of every type T, a payload that is an error value
\* included, Ok(v) is in the success state: IsOk() is true, IsError() is false,
\* Value() is v and Error() is nil.
C2_OkIsSuccess ==
    last.op = "Ok" =>
        /\ last.fault = "none"
        /\ result_IsOk(Returned)
        /\ ~result_IsError(Returned)
        /\ result_Value(Returned) = last.val
        /\ result_Error(Returned) = NilV

C2_Witness ==
    /\ last.op = "Ok"
    /\ last.val.cls = "error"
    /\ result_IsOk(Returned)
    /\ result_Value(Returned) = last.val

\* C3: for every Result built by Ok or Error, at every point after its
\* construction exactly one of IsOk() and IsError() is true, IsOk() exactly
\* when Error() is nil and IsError() exactly when Error() is a descriptor.
C3_ExactlyOneState ==
    \A a \in Results :
        /\ result_IsOk(heap[a]) # result_IsError(heap[a])
        /\ result_IsOk(heap[a]) <=> (result_Error(heap[a]) = NilV)
        /\ result_IsError(heap[a]) <=> (result_Error(heap[a]).cls = "error")

C3_Witness ==
    /\ \E a \in Results : result_IsOk(heap[a]) /\ heap[a].value # Zero(heap[a].T)
    /\ \E b \in Results : result_IsError(heap[b])
    /\ last.op = "result.Except"
    /\ last.fault # "none"

\* C4: no call mutates a container: whatever function is called, with whatever
\* arguments, whether it returns or panics, every container that exists keeps
\* its state tag, held value and held descriptor (so a repeated call sees the
\* state the first one saw).
C4_NoMutation ==
    [][\A a \in DOMAIN heap : a \in DOMAIN heap' /\ heap'[a] = heap[a]]_vars

\* a Filter whose predicate was invoked and returned false, on a Some that is
\* still the Some it was
C4_Witness ==
    /\ last.op = "option.Filter"
    /\ last.fault = "none"
    /\ Len(last.calls) = 1
    /\ last.ret # PtrV(last.self)
    /\ option_IsSome(Self)
    /\ option_IsNone(Returned)

\* C5: r.Except(msg) returns the held value without a panic when r is in the
\* success state; in the failure state it panics with the error "msg: " followed
\* by the description of r's descriptor.  r.Unwrap() does the same with the
\* library's fixed message.
C5_Except ==
    /\ last.op = "result.Except" =>
          IF result_IsOk(Self)
          THEN last.fault = "none" /\ last.ret = result_Value(Self)
          ELSE /\ last.fault = "error"
               /\ last.ret = Undef
               /\ last.fmsg = last.msg \o ": " \o result_Error(Self).s
    /\ last.op = "result.Unwrap" =>
          IF result_IsOk(Self)
          THEN last.fault = "none" /\ last.ret = result_Value(Self)
          ELSE /\ last.fault = "error"
               /\ last.ret = Undef
               /\ last.fmsg = UnwrapMsg \o ": " \o result_Error(Self).s

C5_Witness ==
    /\ last.op = "result.Except"
    /\ last.msg = "msg"
    /\ last.fault = "error"
    /\ last.fmsg = "msg: <nil>"

\* C6: r.ExceptError(msg) returns r's descriptor without a panic when r is in
\* the failure state; in the success state it panics with the error "msg: "
\* followed by the dynamic type name of the held value, whatever the held value
\* is, a nil value of an interface type included.  r.UnwrapError() does the
\* same with the library's fixed message.
C6_ExceptError ==
    /\ last.op = "result.ExceptError" =>
          IF result_IsError(Self)
          THEN last.fault = "none" /\ last.ret = result_Error(Self)
          ELSE /\ last.fault = "error"
               /\ last.ret = Undef
               /\ last.fmsg = last.msg \o ": " \o TypeOf(result_Value(Self)).name
    /\ last.op = "result.UnwrapError" =>
          IF result_IsError(Self)
          THEN last.fault = "none" /\ last.ret = result_Error(Self)
          ELSE /\ last.fault = "error"
               /\ last.ret = Undef
               /\ last.fmsg = UnwrapErrorMsg \o ": " \o TypeOf(result_Value(Self)).name

\* the functions C7 is about: all but Except, ExceptError, Unwrap, UnwrapError
TotalOps ==
    {"Ok", "Error", "Some", "None",
     "result.Value", "result.Error", "result.IsOk", "result.IsError",
     "result.UnwrapOr", "result.UnwrapOrDefault", "result.UnwrapOrElse",
     "result.Inspect", "result.InspectError", "result.Option",
     "option.Value", "option.IsSome", "option.IsNone",
     "option.UnwrapOr", "option.UnwrapOrDefault", "option.UnwrapOrElse",
     "option.Inspect", "option.OkOr", "option.OkOrElse", "option.Filter"}

\* the last call was of a function that takes a callback, on a receiver in the
\* state in which that function invokes it
InvokesCallback ==
    \/ last.op \in {"result.Inspect"} /\ result_IsOk(Self)
    \/ last.op \in {"result.InspectError", "result.UnwrapOrElse"} /\ result_IsError(Self)
    \/ last.op \in {"option.Inspect", "option.Filter"} /\ option_IsSome(Self)
    \/ last.op \in {"option.UnwrapOrElse", "option.OkOrElse"} /\ option_IsNone(Self)

\* C7 as claimed: every function other than Except, ExceptError, Unwrap and
\* UnwrapError returns without a panic, in either state of the receiver and
\* for every argument.
C7_NeverFaults ==
    last.op \in TotalOps => last.fault = "none"

\* C7 as amended: such a function never panics of its own.  It panics exactly
\* when it invokes its callback (UnwrapOrElse, Inspect, InspectError, OkOrElse,
\* Filter in the state in which they invoke it) and the callback is a nil func
\* value or panics itself, and the panic is then that of the invocation.
C7_FaultsOnlyByCallback ==
    last.op \in TotalOps =>
        /\ last.fault # "none" <=> (InvokesCallback /\ last.f.kind \in {"nil", "panics"})
        /\ last.fault \in {"none", "runtime", "callback"}
        /\ last.fault = "runtime" => last.f.kind = "nil"
        /\ last.fault = "callback" => last.f.kind = "panics"

\* OkOrElse on a None with a callback that returns a nil error: no panic, and
\* a Result in the failure state
C7_Witness ==
    /\ last.op = "option.OkOrElse"
    /\ option_IsNone(Self)
    /\ last.f = ConstFunc(NilV)
    /\ last.fault = "none"
    /\ result_IsError(Returned)

\* C8: Result.UnwrapOrElse(f) and Option.UnwrapOrElse(f): in the success or
\* present state f is not invoked and the held value is returned; in the
\* failure or absent state f is invoked exactly once, within the call, and
\* what f returns is what the call returns.
C8_UnwrapOrElse ==
    last.op \in {"result.UnwrapOrElse", "option.UnwrapOrElse"} =>
        LET holds == IF last.op = "result.UnwrapOrElse"
                     THEN result_IsOk(Self) ELSE option_IsSome(Self)
        IN  IF holds
            THEN last.calls = <<>> /\ last.fault = "none" /\ last.ret = Self.value
            ELSE /\ Len(last.calls) <= 1
                 /\ last.f.kind # "nil" => last.calls = <<[f |-> last.f, arg |-> Undef]>>
                 /\ last.f.kind = "const" => last.fault = "none" /\ last.ret = last.f.ret

C8_Witness ==
    /\ last.op = "option.UnwrapOrElse"
    /\ option_IsNone(Self)
    /\ Len(last.calls) = 1
    /\ last.fault = "none"
    /\ last.ret = last.f.ret
    /\ last.ret # Zero(Self.T)

\* C9: Result.Inspect(f) invokes f exactly once, with the held value, if and
\* only if the Result is in the success state; Result.InspectError(f) invokes
\* f exactly once, with the descriptor, if and only if it is in the failure
\* state; Option.Inspect(f) invokes f exactly once, with the held value, if and
\* only if the Option is present; and the call returns the receiver itself.
C9_Inspect ==
    last.op \in {"result.Inspect", "result.InspectError", "option.Inspect"} =>
        LET active == CASE last.op = "result.Inspect" -> result_IsOk(Self)
                        [] last.op = "result.InspectError" -> result_IsError(Self)
                        [] OTHER -> option_IsSome(Self)
            arg == IF last.op = "result.InspectError" THEN result_Error(Self)
                   ELSE Self.value
        IN  /\ last.f.kind # "nil" =>
                  last.calls = IF active THEN <<[f |-> last.f, arg |-> arg]>> ELSE <<>>
            /\ Len(last.calls) <= 1
            /\ (~active \/ last.f.kind = "const") => last.fault = "none"
            /\ last.fault = "none" => last.ret = PtrV(last.self)

C9_Witness ==
    /\ last.op = "result.InspectError"
    /\ result_IsError(Self)
    /\ Len(last.calls) = 1
    /\ last.calls[1].arg = result_Error(Self)
    /\ last.ret = PtrV(last.self)

\* C10: Option.Filter(p): on a present Option with p(value) true the result is
\* the receiver itself; on a present Option with p(value) false the result is
\* a None; on an absent Option the result is a None and p is not invoked; p is
\* invoked at most once in a call.
C10_Filter ==
    last.op = "option.Filter" =>
        /\ Len(last.calls) <= 1
        /\ option_IsNone(Self) =>
              /\ last.calls = <<>>
              /\ last.fault = "none"
              /\ Returned = None(Self.T)
        /\ (option_IsSome(Self) /\ last.f.kind = "eq") =>
              /\ last.calls = <<[f |-> last.f, arg |-> option_Value(Self)]>>
              /\ last.fault = "none"
              /\ IF option_Value(Self) = last.f.ret
                 THEN last.ret = PtrV(last.self)
                 ELSE last.ret # PtrV(last.self) /\ Returned = None(Self.T)

\* a Filter that kept a present Option holding a non-zero value
C10_Witness ==
    /\ last.op = "option.Filter"
    /\ option_IsSome(Self)
    /\ option_Value(Self) # Zero(Self.T)
    /\ Len(last.calls) = 1
    /\ last.ret = PtrV(last.self)

\* C11: Result.Option() projects state and payload: on a Result in the success
\* state holding v it returns a Some holding v, on a Result in the failure
\* state it returns a None of the same T holding the zero value; the Option
\* carries nothing of the descriptor.
C11_Option ==
    last.op = "result.Option" =>
        /\ last.fault = "none"
        /\ last.calls = <<>>
        /\ Returned.cls = "option"
        /\ IF result_IsOk(Self)
           THEN /\ Returned = Some(Self.T, result_Value(Self))
                /\ option_IsSome(Returned)
                /\ option_Value(Returned) = result_Value(Self)
           ELSE /\ Returned = None(Self.T)
                /\ option_IsNone(Returned)
                /\ option_Value(Returned) = Zero(Self.T)

\* the Option of a Result built from a string descriptor
C11_Witness ==
    /\ last.op = "result.Option"
    /\ result_IsError(Self)
    /\ result_Error(Self).s = "boom"
    /\ result_Error(Self) \notin NativeErrors
    /\ Returned = None(Self.T)

\* C12: Option.OkOr(d): on a Some holding v it returns a Result in the success
\* state holding v with a nil descriptor, whatever d is; on a None it returns
\* a Result in the failure state holding the zero value, whose descriptor is d
\* itself when d is an error and otherwise an error whose text is the %v text
\* of d, as Error[T](d) builds it.
C12_OkOr ==
    last.op = "option.OkOr" =>
        /\ last.fault = "none"
        /\ last.calls = <<>>
        /\ Returned.cls = "result"
        /\ IF option_IsSome(Self)
           THEN /\ Returned = Ok(Self.T, option_Value(Self))
                /\ result_IsOk(Returned)
                /\ result_Error(Returned) = NilV
           ELSE /\ Returned = Error(Self.T, last.val, FreshErr(last.ret.addr))
                /\ result_IsError(Returned)
                /\ result_Value(Returned) = Zero(Self.T)
                /\ result_Error(Returned).cls = "error"
                /\ last.val.cls = "error" => result_Error(Returned) = last.val
                /\ last.val.cls # "error" => result_Error(Returned).s = FormatV(last.val)

\* OkOr of an int descriptor on a None
C12_Witness ==
    /\ last.op = "option.OkOr"
    /\ option_IsNone(Self)
    /\ last.val = IntV(42)
    /\ result_IsError(Returned)
    /\ result_Error(Returned).s = "42"

\* C13: Option.OkOrElse(f): on a present Option f is not invoked and the result
\* is Ok(value); on an absent Option f is invoked exactly once, within the
\* call, and the result is Error[T](e) for the e that f returned: a Result in
\* the failure state whose descriptor is e itself when e is an error.
C13_OkOrElse ==
    last.op = "option.OkOrElse" =>
        IF option_IsSome(Self)
        THEN /\ last.calls = <<>>
             /\ last.fault = "none"
             /\ Returned = Ok(Self.T, option_Value(Self))
        ELSE /\ Len(last.calls) <= 1
             /\ last.f.kind # "nil" => last.calls = <<[f |-> last.f, arg |-> Undef]>>
             /\ last.f.kind = "const" =>
                   /\ last.fault = "none"
                   /\ Returned = Error(Self.T, last.f.ret, FreshErr(last.ret.addr))
                   /\ result_IsError(Returned)
                   /\ result_Value(Returned) = Zero(Self.T)
                   /\ last.f.ret.cls = "error" => result_Error(Returned) = last.f.ret
                   /\ last.f.ret.cls # "error" =>
                          result_Error(Returned).s = FormatV(last.f.ret)

\* OkOrElse on a None with a callback returning an error
C13_Witness ==
    /\ last.op = "option.OkOrElse"
    /\ option_IsNone(Self)
    /\ last.f.kind = "const"
    /\ last.f.ret \in NativeErrors
    /\ Len(last.calls) = 1
    /\ result_Error(Returned) = last.f.ret

\* C15: for both containers and every default d, UnwrapOr(d) returns the held
\* value in the success or present state and d otherwise; UnwrapOrDefault()
\* returns the held value in the success or present state and the zero value
\* of T otherwise, which is what Value() returns in the failure or absent state.
C15_UnwrapOr ==
    /\ last.op = "result.UnwrapOr" =>
          /\ last.fault = "none"
          /\ last.ret = IF result_IsOk(Self) THEN result_Value(Self) ELSE last.val
    /\ last.op = "option.UnwrapOr" =>
          /\ last.fault = "none"
          /\ last.ret = IF option_IsSome(Self) THEN option_Value(Self) ELSE last.val
    /\ last.op = "result.UnwrapOrDefault" =>
          /\ last.fault = "none"
          /\ last.ret = IF result_IsOk(Self) THEN result_Value(Self) ELSE Zero(Self.T)
    /\ last.op = "option.UnwrapOrDefault" =>
          /\ last.fault = "none"
          /\ last.ret = IF option_IsSome(Self) THEN option_Value(Self) ELSE Zero(Self.T)
    /\ (last.op = "result.Value" /\ result_IsError(Self)) => last.ret = Zero(Self.T)
    /\ (last.op = "option.Value" /\ option_IsNone(Self)) => last.ret = Zero(Self.T)
    /\ \A a \in Results : result_IsError(heap[a]) => result_Value(heap[a]) = Zero(heap[a].T)
    /\ \A a \in Options : option_IsNone(heap[a]) => option_Value(heap[a]) = Zero(heap[a].T)

\* UnwrapOr of a non-zero default on a Result in the failure state
C15_Witness ==
    /\ last.op = "result.UnwrapOr"
    /\ result_IsError(Self)
    /\ last.val # Zero(Self.T)
    /\ last.ret = last.val

\* C16: Some(v) has IsSome() true, IsNone() false, Value() v, and its Unwrap()
\* returns v; None[T]() has IsSome() false, IsNone() true, Value() the zero
\* value of T, and its Unwrap() panics.  For every Option exactly one of
\* IsSome() and IsNone() is true, and Unwrap() panics exactly when IsNone().
C16_SomeNoneUnwrap ==
    /\ last.op = "Some" =>
          /\ option_IsSome(Returned) /\ ~option_IsNone(Returned)
          /\ option_Value(Returned) = last.val
          /\ option_Unwrap(heap, last.ret.addr) = Return(heap, last.val, <<>>)
    /\ last.op = "None" =>
          /\ ~option_IsSome(Returned) /\ option_IsNone(Returned)
          /\ option_Value(Returned) = Zero(Returned.T)
          /\ option_Unwrap(heap, last.ret.addr).fault # "none"
    /\ \A a \in Options : option_IsSome(heap[a]) # option_IsNone(heap[a])
    /\ last.op = "option.Unwrap" =>
          /\ last.fault # "none" <=> option_IsNone(Self)
          /\ option_IsSome(Self) => last.ret = option_Value(Self)
          /\ option_IsNone(Self) =>
                last.fault = "string" /\ last.ret = Undef /\ last.fmsg = OptionUnwrapMsg

\* Unwrap of a None
C16_Witness ==
    /\ last.op = "option.Unwrap"
    /\ option_IsNone(Self)
    /\ last.fault = "string"

\* ------------------------------------------------- covertError on its own
\* covertError(err), called directly as Test_convertError does; the error it
\* allocates is the next one after those allocated before
CallCovertError ==
    \E d \in Descriptors :
        LET e == covertError(d, FreshErr(Len(errs) + 1))
        IN  /\ Len(errs) < MaxCalls
            /\ errs' = Append(errs, [in |-> d, out |-> e])
            /\ last' = Call("covertError", 0, "", d, NoFunc, Return(heap, e, <<>>))
            /\ UNCHANGED <<heap, chain, heapS, lastS>>

NextNormalize == CallCovertError

SpecNormalize == Init /\ [][NextNormalize]_vars

\* C14: covertError returns an error for every argument.  Given an error it
\* returns that same error (so two calls with the same error return equal
\* errors, with the original description); given anything else it returns a
\* new error, none of the callers' and none returned before, whose description
\* is the %v text of the argument: "boom" for the string "boom", "<nil>" for
\* nil.
C14_Normalize ==
    \A i \in DOMAIN errs :
        LET d == errs[i].in
            e == errs[i].out
        IN  /\ e.cls = "error"
            /\ e # NilV
            /\ d.cls = "error" =>
                  /\ e = d
                  /\ e.s = d.s
                  /\ \A j \in DOMAIN errs : errs[j].in = d => errs[j].out = e
            /\ d.cls # "error" =>
                  /\ e.s = FormatV(d)
                  /\ e \notin NativeErrors
                  /\ \A j \in DOMAIN errs : j # i => errs[j].out # e
            /\ d = StrV("boom") => e.s = "boom"
            /\ d = NilV => e.s = "<nil>"
            /\ d = IntV(42) => e.s = "42"

\* the same error normalized twice, and the string "boom" normalized twice
C14_Witness ==
    \E i, j, k, l \in DOMAIN errs :
        /\ i # j /\ k # l
        /\ errs[i].in \in NativeErrors /\ errs[j].in = errs[i].in
        /\ errs[i].out = errs[j].out
        /\ errs[k].in = StrV("boom") /\ errs[l].in = StrV("boom")
        /\ errs[k].out # errs[l].out
        /\ errs[k].out.s = "boom"

\* ------------------------------------------------- chains of conversions
\* A caller constructs one container and converts it again and again: each
\* conversion is called on the container the one before returned.
ChainFirst(op, val, obj) ==
    /\ heap' = <<obj>>
    /\ chain' = <<1>>
    /\ last' = Call(op, 0, "", val, NoFunc, Return(<<obj>>, PtrV(1), <<>>))
    /\ UNCHANGED <<errs, heapS, lastS>>

\* a conversion of the chain's last container; a call that panics returns no
\* container and leaves the chain as it is
ChainConvert(op, val, f, out) ==
    /\ Len(out.heap) <= MaxChain
    /\ heap' = out.heap
    /\ chain' = IF out.fault = "none" THEN Append(chain, out.ret.addr) ELSE chain
    /\ last' = Call(op, chain[Len(chain)], "", val, f, out)
    /\ UNCHANGED <<errs, heapS, lastS>>

ChainLast == heap[chain[Len(chain)]]

ChainOk ==
    /\ chain = <<>>
    /\ \E T \in Types : \E v \in ValuesOf(T) : ChainFirst("Ok", v, Ok(T, v))

ChainError ==
    /\ chain = <<>>
    /\ \E T \in Types : \E d \in Descriptors :
          ChainFirst("Error", d, Error(T, d, FreshErr(1)))

ChainSome ==
    /\ chain = <<>>
    /\ \E T \in Types : \E v \in ValuesOf(T) : ChainFirst("Some", v, Some(T, v))

ChainNone ==
    /\ chain = <<>>
    /\ \E T \in Types : ChainFirst("None", Undef, None(T))

ChainOption ==
    /\ chain # <<>>
    /\ ChainLast.cls = "result"
    /\ ChainConvert("result.Option", Undef, NoFunc, result_Option(heap, chain[Len(chain)]))

ChainOkOr ==
    /\ chain # <<>>
    /\ ChainLast.cls = "option"
    /\ \E d \in Descriptors :
          ChainConvert("option.OkOr", d, NoFunc, option_OkOr(heap, chain[Len(chain)], d))

ChainOkOrElse ==
    /\ chain # <<>>
    /\ ChainLast.cls = "option"
    /\ \E f \in ErrorFuncs :
          ChainConvert("option.OkOrElse", Undef, f,
                       option_OkOrElse(heap, chain[Len(chain)], f))

NextChain ==
    \/ ChainOk \/ ChainError \/ ChainSome \/ ChainNone
    \/ ChainOption \/ ChainOkOr \/ ChainOkOrElse

SpecChain == Init /\ [][NextChain]_vars

\* the state tag and the held value of either container
Success(c) == IF c.cls = "result" THEN result_IsOk(c) ELSE option_IsSome(c)
Held(c) == IF c.cls = "result" THEN result_Value(c) ELSE option_Value(c)

\* C17: conversions keep the state tag.  r.Option().IsSome() is r.IsOk();
\* o.OkOr(d).IsOk() is o.IsSome() for every d, nil included; o.OkOrElse(f).IsOk()
\* is o.IsSome() for every f that returns, one returning a nil error included.
\* So along any chain of Option(), OkOr and OkOrElse every container is in the
\* success or present state exactly when the first one is, and then holds the
\* first one's value; a None never converts to a Result in the success state.
C17_TagPreserved ==
    /\ (last.op \in {"result.Option", "option.OkOr", "option.OkOrElse"}
            /\ last.fault = "none") =>
          /\ Success(Returned) = Success(Self)
          /\ Success(Self) => Held(Returned) = Held(Self)
          /\ Returned.cls # Self.cls
    /\ \A i \in DOMAIN chain :
          /\ Success(heap[chain[i]]) = Success(heap[chain[1]])
          /\ Success(heap[chain[1]]) => Held(heap[chain[i]]) = Held(heap[chain[1]])
    /\ \A i \in DOMAIN chain :
          (i > 1 /\ heap[chain[i]].cls = "result" /\ option_IsNone(heap[chain[i - 1]]))
              => result_IsError(heap[chain[i]])

\* None, then OkOr(nil), then Option(): still absent
C17_Witness ==
    /\ Len(chain) = 3
    /\ heap[chain[1]].cls = "option"
    /\ option_IsNone(heap[chain[1]])
    /\ result_IsError(heap[chain[2]])
    /\ result_Error(heap[chain[2]]).s = "<nil>"
    /\ last.op = "result.Option"
    /\ option_IsNone(heap[chain[3]])

\* ------------------------------------------------------ struct variant
\* The older variant of the library: Result[T] and Option[T] are structs with
\* exported fields, and the constructors have the same names (here with an S,
\* the module having one name space).  covertError is the same function.

\* Option[T]{Value: value, none: false}
SomeS(T, value) == [cls |-> "Option", T |-> T, Value |-> value, none |-> FALSE]

\* Option[T]{none: true}
NoneS(T) == [cls |-> "Option", T |-> T, Value |-> Zero(T), none |-> TRUE]

Option_IsSome(opt) == ~opt.none
Option_IsNone(opt) == opt.none

\* Result[T]{Value: value, Error: nil}
OkS(T, value) == [cls |-> "Result", T |-> T, Value |-> value, Error |-> NilV]

\* Result[T]{Error: covertError(err)}
ErrorS(T, err, fresh) ==
    [cls |-> "Result", T |-> T, Value |-> Zero(T), Error |-> covertError(err, fresh)]

Result_IsOk(r) == r.Error = NilV
Result_IsError(r) == r.Error # NilV

unwrapErrorFailedS(h, msg, err) == Panic(h, "error", FormatPair(msg, err.s), <<>>)

unwrapValueFailedS(h, msg, value) ==
    IF TypeOf(value).isNil
    THEN Panic(h, "runtime", NilDeref, <<>>)
    ELSE Panic(h, "error", FormatPair(msg, TypeOf(value).name), <<>>)

Result_Except(h, self, msg) ==
    IF Result_IsError(h[self])
    THEN unwrapErrorFailedS(h, msg, h[self].Error)
    ELSE Return(h, h[self].Value, <<>>)

\* ExceptError that returns the Error field in the success state too
Result_ExceptError_noPanic(h, self, msg) == Return(h, h[self].Error, <<>>)

Result_ExceptError(h, self, msg) ==
    IF Result_IsOk(h[self])
    THEN unwrapValueFailedS(h, msg, h[self].Value)
    ELSE Return(h, h[self].Error, <<>>)

Result_Inspect(h, self, f) ==
    IF Result_IsOk(h[self])
    THEN LET c == Invoke(h, f, h[self].Value)
         IN  IF c.fault # "none" THEN c ELSE Return(c.heap, PtrV(self), c.calls)
    ELSE Return(h, PtrV(self), <<>>)

Result_InspectError(h, self, f) ==
    IF Result_IsError(h[self])
    THEN LET c == Invoke(h, f, h[self].Error)
         IN  IF c.fault # "none" THEN c ELSE Return(c.heap, PtrV(self), c.calls)
    ELSE Return(h, PtrV(self), <<>>)

\* the fixed messages of the struct variant (backquotes written as apostrophes)
ResultUnwrapMsg == "called 'Result.Unwrap()' on an 'Error' value"
ResultUnwrapErrorMsg == "called 'Result.UnwrapError()' on an 'Value' value"
StructOptionUnwrapMsg == "called 'Option.Unwrap()' on a 'nil' value"

Result_Unwrap(h, self) == Result_Except(h, self, ResultUnwrapMsg)
Result_UnwrapError(h, self) == Result_ExceptError(h, self, ResultUnwrapErrorMsg)

Result_UnwrapOr(h, self, defaults) ==
    IF Result_IsOk(h[self]) THEN Return(h, h[self].Value, <<>>)
    ELSE Return(h, defaults, <<>>)

Result_UnwrapOrDefault(h, self) ==
    IF Result_IsOk(h[self]) THEN Return(h, h[self].Value, <<>>)
    ELSE Return(h, Zero(h[self].T), <<>>)

Result_UnwrapOrElse(h, self, f) ==
    IF Result_IsOk(h[self]) THEN Return(h, h[self].Value, <<>>)
    ELSE Invoke(h, f, Undef)

Result_Option(h, self) ==
    IF Result_IsOk(h[self])
    THEN Return(Append(h, SomeS(h[self].T, h[self].Value)), PtrV(Len(h) + 1), <<>>)
    ELSE Return(Append(h, NoneS(h[self].T)), PtrV(Len(h) + 1), <<>>)

Option_Unwrap(h, self) ==
    IF Option_IsNone(h[self]) THEN Panic(h, "string", StructOptionUnwrapMsg, <<>>)
    ELSE Return(h, h[self].Value, <<>>)

Option_UnwrapOr(h, self, defaults) ==
    IF Option_IsNone(h[self]) THEN Return(h, defaults, <<>>)
    ELSE Return(h, h[self].Value, <<>>)

Option_UnwrapOrElse(h, self, f) ==
    IF Option_IsNone(h[self]) THEN Invoke(h, f, Undef)
    ELSE Return(h, h[self].Value, <<>>)

Option_UnwrapOrDefault(h, self) ==
    IF Option_IsNone(h[self]) THEN Return(h, NoneS(h[self].T).Value, <<>>)
    ELSE Return(h, h[self].Value, <<>>)

Option_Inspect(h, self, f) ==
    IF Option_IsSome(h[self])
    THEN LET c == Invoke(h, f, h[self].Value)
         IN  IF c.fault # "none" THEN c ELSE Return(c.heap, PtrV(self), c.calls)
    ELSE Return(h, PtrV(self), <<>>)

Option_OkOr(h, self, err) ==
    IF Option_IsSome(h[self])
    THEN Return(Append(h, OkS(h[self].T, h[self].Value)), PtrV(Len(h) + 1), <<>>)
    ELSE Return(Append(h, ErrorS(h[self].T, err, FreshErr(Len(h) + 1))),
                PtrV(Len(h) + 1), <<>>)

Option_OkOrElse(h, self, f) ==
    IF Option_IsSome(h[self])
    THEN Return(Append(h, OkS(h[self].T, h[self].Value)), PtrV(Len(h) + 1), <<>>)
    ELSE LET c == Invoke(h, f, Undef)
         IN  IF c.fault # "none" THEN c
             ELSE Return(Append(c.heap, ErrorS(h[self].T, c.ret, FreshErr(Len(c.heap) + 1))),
                         PtrV(Len(c.heap) + 1), c.calls)

Option_Filter(h, self, predicate) ==
    IF Option_IsSome(h[self])
    THEN LET c == Invoke(h, predicate, h[self].Value)
         IN  IF c.fault # "none" THEN c
             ELSE IF c.ret = BoolV(TRUE) THEN Return(c.heap, PtrV(self), c.calls)
             ELSE Return(Append(c.heap, NoneS(h[self].T)), PtrV(Len(c.heap) + 1), c.calls)
    ELSE Return(Append(h, NoneS(h[self].T)), PtrV(Len(h) + 1), <<>>)

\* --------------------------------------------------- the two variants
\* The same call made on both variants: the interface variant works on heap
\* and last, the struct variant on heapS and lastS.  Where the interface
\* variant has the methods Value() and Error(), the struct variant has the
\* fields Value and Error.
BothStep(op, self, msg, val, f, out, outS) ==
    /\ Len(out.heap) <= MaxObjs
    /\ Len(outS.heap) <= MaxObjs
    /\ heap' = out.heap
    /\ last' = Call(op, self, msg, val, f, out)
    /\ heapS' = outS.heap
    /\ lastS' = Call(op, self, msg, val, f, outS)
    /\ UNCHANGED <<errs, chain>>

\* the containers both variants hold at the same address
BothResults ==
    {a \in Results : a \in DOMAIN heapS /\ heapS[a].cls = "Result"}
BothOptions ==
    {a \in Options : a \in DOMAIN heapS /\ heapS[a].cls = "Option"}

BothOk ==
    \E T \in {t \in Types : Instantiated(t)} : \E v \in ValuesOf(T) :
        BothStep("Ok", 0, "", v, NoFunc,
                 Return(Append(heap, Ok(T, v)), PtrV(Len(heap) + 1), <<>>),
                 Return(Append(heapS, OkS(T, v)), PtrV(Len(heapS) + 1), <<>>))

BothError ==
    \E T \in {t \in Types : Instantiated(t)} : \E d \in Descriptors :
        BothStep("Error", 0, "", d, NoFunc,
                 Return(Append(heap, Error(T, d, FreshErr(Len(heap) + 1))),
                        PtrV(Len(heap) + 1), <<>>),
                 Return(Append(heapS, ErrorS(T, d, FreshErr(Len(heapS) + 1))),
                        PtrV(Len(heapS) + 1), <<>>))

BothSome ==
    \E T \in {t \in Types : Instantiated(t)} : \E v \in ValuesOf(T) :
        BothStep("Some", 0, "", v, NoFunc,
                 Return(Append(heap, Some(T, v)), PtrV(Len(heap) + 1), <<>>),
                 Return(Append(heapS, SomeS(T, v)), PtrV(Len(heapS) + 1), <<>>))

BothNone ==
    \E T \in {t \in Types : Instantiated(t)} :
        BothStep("None", 0, "", Undef, NoFunc,
                 Return(Append(heap, None(T)), PtrV(Len(heap) + 1), <<>>),
                 Return(Append(heapS, NoneS(T)), PtrV(Len(heapS) + 1), <<>>))

BothResultValue ==
    \E a \in BothResults : 
        BothStep("result.Value", a, "", Undef, NoFunc,
                 Return(heap, result_Value(heap[a]), <<>>),
                 Return(heapS, heapS[a].Value, <<>>))

BothResultError ==
    \E a \in BothResults : 
        BothStep("result.Error", a, "", Undef, NoFunc,
                 Return(heap, result_Error(heap[a]), <<>>),
                 Return(heapS, heapS[a].Error, <<>>))

BothResultIsOk ==
    \E a \in BothResults : 
        BothStep("result.IsOk", a, "", Undef, NoFunc,
                 Return(heap, BoolV(result_IsOk(heap[a])), <<>>),
                 Return(heapS, BoolV(Result_IsOk(heapS[a])), <<>>))

BothResultIsError ==
    \E a \in BothResults : 
        BothStep("result.IsError", a, "", Undef, NoFunc,
                 Return(heap, BoolV(result_IsError(heap[a])), <<>>),
                 Return(heapS, BoolV(Result_IsError(heapS[a])), <<>>))

BothResultExcept ==
    \E a \in BothResults : \E msg \in Messages :
        BothStep("result.Except", a, msg, Undef, NoFunc,
                 result_Except(heap, a, msg),
                 Result_Except(heapS, a, msg))

BothResultExceptError ==
    \E a \in BothResults : \E msg \in Messages :
        BothStep("result.ExceptError", a, msg, Undef, NoFunc,
                 result_ExceptError(heap, a, msg),
                 Result_ExceptError(heapS, a, msg))

BothResultUnwrap ==
    \E a \in BothResults : 
        BothStep("result.Unwrap", a, "", Undef, NoFunc,
                 result_Unwrap(heap, a),
                 Result_Unwrap(heapS, a))

BothResultUnwrapError ==
    \E a \in BothResults : 
        BothStep("result.UnwrapError", a, "", Undef, NoFunc,
                 result_UnwrapError(heap, a),
                 Result_UnwrapError(heapS, a))

BothResultInspect ==
    \E a \in BothResults : \E f \in VoidFuncs :
        BothStep("result.Inspect", a, "", Undef, f,
                 result_Inspect(heap, a, f),
                 Result_Inspect(heapS, a, f))

BothResultInspectError ==
    \E a \in BothResults : \E f \in VoidFuncs :
        BothStep("result.InspectError", a, "", Undef, f,
                 result_InspectError(heap, a, f),
                 Result_InspectError(heapS, a, f))

BothResultUnwrapOr ==
    \E a \in BothResults : \E d \in ValuesOf(heap[a].T) :
        BothStep("result.UnwrapOr", a, "", d, NoFunc,
                 result_UnwrapOr(heap, a, d),
                 Result_UnwrapOr(heapS, a, d))

BothResultUnwrapOrDefault ==
    \E a \in BothResults : 
        BothStep("result.UnwrapOrDefault", a, "", Undef, NoFunc,
                 result_UnwrapOrDefault(heap, a),
                 Result_UnwrapOrDefault(heapS, a))

BothResultUnwrapOrElse ==
    \E a \in BothResults : \E f \in ValueFuncs(heap[a].T) :
        BothStep("result.UnwrapOrElse", a, "", Undef, f,
                 result_UnwrapOrElse(heap, a, f),
                 Result_UnwrapOrElse(heapS, a, f))

BothResultOption ==
    \E a \in BothResults : 
        BothStep("result.Option", a, "", Undef, NoFunc,
                 result_Option(heap, a),
                 Result_Option(heapS, a))

BothOptionValue ==
    \E a \in BothOptions : 
        BothStep("option.Value", a, "", Undef, NoFunc,
                 Return(heap, option_Value(heap[a]), <<>>),
                 Return(heapS, heapS[a].Value, <<>>))

BothOptionIsSome ==
    \E a \in BothOptions : 
        BothStep("option.IsSome", a, "", Undef, NoFunc,
                 Return(heap, BoolV(option_IsSome(heap[a])), <<>>),
                 Return(heapS, BoolV(Option_IsSome(heapS[a])), <<>>))

BothOptionIsNone ==
    \E a \in BothOptions : 
        BothStep("option.IsNone", a, "", Undef, NoFunc,
                 Return(heap, BoolV(option_IsNone(heap[a])), <<>>),
                 Return(heapS, BoolV(Option_IsNone(heapS[a])), <<>>))

BothOptionUnwrap ==
    \E a \in BothOptions : 
        BothStep("option.Unwrap", a, "", Undef, NoFunc,
                 option_Unwrap(heap, a),
                 Option_Unwrap(heapS, a))

BothOptionUnwrapOr ==
    \E a \in BothOptions : \E d \in ValuesOf(heap[a].T) :
        BothStep("option.UnwrapOr", a, "", d, NoFunc,
                 option_UnwrapOr(heap, a, d),
                 Option_UnwrapOr(heapS, a, d))

BothOptionUnwrapOrElse ==
    \E a \in BothOptions : \E f \in ValueFuncs(heap[a].T) :
        BothStep("option.UnwrapOrElse", a, "", Undef, f,
                 option_UnwrapOrElse(heap, a, f),
                 Option_UnwrapOrElse(heapS, a, f))

BothOptionUnwrapOrDefault ==
    \E a \in BothOptions : 
        BothStep("option.UnwrapOrDefault", a, "", Undef, NoFunc,
                 option_UnwrapOrDefault(heap, a),
                 Option_UnwrapOrDefault(heapS, a))

BothOptionInspect ==
    \E a \in BothOptions : \E f \in VoidFuncs :
        BothStep("option.Inspect", a, "", Undef, f,
                 option_Inspect(heap, a, f),
                 Option_Inspect(heapS, a, f))

BothOptionOkOr ==
    \E a \in BothOptions : \E d \in Descriptors :
        BothStep("option.OkOr", a, "", d, NoFunc,
                 option_OkOr(heap, a, d),
                 Option_OkOr(heapS, a, d))

BothOptionOkOrElse ==
    \E a \in BothOptions : \E f \in ErrorFuncs :
        BothStep("option.OkOrElse", a, "", Undef, f,
                 option_OkOrElse(heap, a, f),
                 Option_OkOrElse(heapS, a, f))

BothOptionFilter ==
    \E a \in BothOptions : \E p \in Predicates(heap[a].T) :
        BothStep("option.Filter", a, "", Undef, p,
                 option_Filter(heap, a, p),
                 Option_Filter(heapS, a, p))

NextBoth ==
    \/ BothOk \/ BothError \/ BothSome
    \/ BothNone \/ BothResultValue \/ BothResultError
    \/ BothResultIsOk \/ BothResultIsError \/ BothResultExcept
    \/ BothResultExceptError \/ BothResultUnwrap \/ BothResultUnwrapError
    \/ BothResultInspect \/ BothResultInspectError \/ BothResultUnwrapOr
    \/ BothResultUnwrapOrDefault \/ BothResultUnwrapOrElse \/ BothResultOption
    \/ BothOptionValue \/ BothOptionIsSome \/ BothOptionIsNone
    \/ BothOptionUnwrap \/ BothOptionUnwrapOr \/ BothOptionUnwrapOrElse
    \/ BothOptionUnwrapOrDefault \/ BothOptionInspect \/ BothOptionOkOr
    \/ BothOptionOkOrElse \/ BothOptionFilter

SpecBoth == Init /\ [][NextBoth]_vars

\* An object of the interface variant and the struct object that stands for
\* it: same class, same type parameter, and the struct fields Value / Error
\* equal to the interface methods Value() / Error().
Corresponds(o, oS) ==
    /\ o.T = oS.T
    /\ \/ /\ o.cls = "result"
          /\ oS.cls = "Result"
          /\ oS.Value = result_Value(o)
          /\ oS.Error = result_Error(o)
          /\ Result_IsOk(oS) = result_IsOk(o)
          /\ Result_IsError(oS) = result_IsError(o)
       \/ /\ o.cls = "option"
          /\ oS.cls = "Option"
          /\ oS.Value = option_Value(o)
          /\ Option_IsSome(oS) = option_IsSome(o)
          /\ Option_IsNone(oS) = option_IsNone(o)

\* the operations whose fixed fault message is spelled differently in the
\* two variants (capitalisation of the receiver's type name)
FixedMessageOps == {"result.Unwrap", "result.UnwrapError", "option.Unwrap"}

\* C18: under the same sequence of calls the struct variant and the
\* interface variant hold corresponding objects (same state tags, struct
\* fields Value / Error equal to the methods Value() / Error()), return the
\* same values, invoke the same callbacks with the same arguments the same
\* number of times, and fault in the same cases with the same kind of fault;
\* the fault message is also the same except for the fixed messages of
\* Unwrap / UnwrapError, which differ only in their spelling.
C18_Equivalent ==
    /\ Len(heap) = Len(heapS)
    /\ \A a \in DOMAIN heap : Corresponds(heap[a], heapS[a])
    /\ last.op = lastS.op
    /\ last.ret = lastS.ret
    /\ last.calls = lastS.calls
    /\ last.fault = lastS.fault
    /\ last.op \notin FixedMessageOps => last.fmsg = lastS.fmsg

C18_Witness ==
    /\ last.op = "result.Unwrap"
    /\ last.fault = "error"
    /\ lastS.fault = "error"
    /\ last.fmsg # lastS.fmsg
    /\ Len(heap) >= 2
    /\ \E a \in DOMAIN heap :
          /\ heap[a].cls = "option"
          /\ option_IsNone(heap[a])
          /\ Option_IsNone(heapS[a])
====
